---- MODULE Spec2Model ----
(***************************************************************************)
(* Model of scipy/sparse/_generate_sparsetools.py: the generator of the    *)
(* sparsetools dispatch code.                                              *)
(*                                                                         *)
(* Text is modelled structurally.  A type-code string is a sequence of     *)
(* one-character strings; a C++ type identifier (NPY_INT32, ...) and a C++ *)
(* type name (npy_int32, ...) are strings, Python's None is the string     *)
(* "None", and the runtime "no data type" identifier -1 is the string      *)
(* "-1".  A formatted C++ fragment is a record of the values that the      *)
(* format string interpolates.                                             *)
(***************************************************************************)
EXTENDS Integers, Sequences, FiniteSets, TLC

VARIABLES
    pc,           \* position of the run
    I_TYPES,      \* list of (typenum, C++ type) for the index types
    T_TYPES,      \* list of (typenum, C++ type) for the data types
    i_types,      \* main: variants parameterized by I only
    it_types,     \* main: variants parameterized by I and T
    getter_code,  \* main: the generated get_thunk_case
    name,         \* main: name of the routine of the current line
    args,         \* main: type codes of the current line, whitespace removed
    gen,          \* main: result of parse_routine for the current line
    names,        \* main: names of all routines generated so far
    thunks,       \* main: thunks of the current compilation unit
    methods,      \* main: methods of the current compilation unit
    unit,         \* main: index of the current compilation unit
    nlines,       \* main: number of lines read from the current unit's table
    force,        \* options.force
    outdir,       \* options.outdir is given
    files,        \* files written by this run: destination -> content
    err,          \* the exception that ended the run, or "" 
    call          \* last execution of generated code (get_thunk_case, thunk)

vars == <<pc, I_TYPES, T_TYPES, i_types, it_types, getter_code, name, args,
          gen, names, thunks, methods, unit, nlines, force, outdir, files,
          err, call>>

\* ------------------------------------------------------------------------
\* Bounds of the model
MaxI == 2          \* index types in a drawn configuration
MaxT == 2          \* data types in a drawn configuration
MaxLen == 3        \* characters of a drawn type-code string
MaxUnits == 2      \* compilation units of a run
MaxLines == 2      \* lines of one routine table

None == "None"
NoT == "-1"        \* T_typenum of a call without data type

ITypePool == {<<"NPY_INT32", "npy_int32">>, <<"NPY_INT64", "npy_int64">>}
TTypePool == {<<"NPY_BOOL", "npy_bool_wrapper">>, <<"NPY_BYTE", "npy_byte">>,
              <<"NPY_DOUBLE", "npy_double">>}

SeqsUpTo(S, n) == UNION {[1..k -> S] : k \in 0..n}

Range(s) == {s[k] : k \in 1..Len(s)}

\* ------------------------------------------------------------------------
\* get_thunk_type_set

\* a getter branch that returns the id after the one of its variant
GetterBranch_off(T_typenum, j) == [T_typenum |-> T_typenum, ret |-> j + 1]

\* one "else if (T_typenum == ...) { return j; }" of the getter
GetterBranch(T_typenum, j) == [T_typenum |-> T_typenum, ret |-> j]

\* "else if (I_typenum == ...) { if (T_typenum == -1) { return j; }"
GetterOpen(getter, I_typenum, j) ==
    Append(getter, [I_typenum |-> I_typenum,
                    branches |-> <<GetterBranch(NoT, j)>>])

\* appends a T branch to the block that is open (the last one)
GetterAdd(getter, T_typenum, j) ==
    [getter EXCEPT ![Len(getter)].branches =
         Append(@, GetterBranch(T_typenum, j))]

Variant(j, I_typenum, T_typenum, I_type, T_type) ==
    [j |-> j, I_typenum |-> I_typenum, T_typenum |-> T_typenum,
     I_type |-> I_type, T_type |-> T_type]

\* a counter that is never incremented
NextJ_stuck(j) == j

\* j after one variant has been numbered
NextJ(j) == j + 1

RECURSIVE TypeSetInner(_, _, _, _)
\* the loop over T_TYPES for the index type I, from its k-th entry on
TypeSetInner(st, I, TTs, k) ==
    IF k > Len(TTs) THEN st
    ELSE TypeSetInner(
           [j |-> NextJ(st.j),
            i_types |-> st.i_types,
            it_types |-> Append(st.it_types,
                           Variant(st.j, I[1], TTs[k][1], I[2], TTs[k][2])),
            getter |-> GetterAdd(st.getter, TTs[k][1], st.j)],
           I, TTs, k + 1)

RECURSIVE TypeSetOuter(_, _, _, _)
\* the loop over I_TYPES, from its k-th entry on
TypeSetOuter(st, ITs, TTs, k) ==
    IF k > Len(ITs) THEN st
    ELSE TypeSetOuter(
           TypeSetInner(
             [j |-> NextJ(st.j),
              i_types |-> Append(st.i_types,
                            Variant(st.j, ITs[k][1], None, ITs[k][2], None)),
              it_types |-> st.it_types,
              getter |-> GetterOpen(st.getter, ITs[k][1], st.j)],
             ITs[k], TTs, 1),
           ITs, TTs, k + 1)

get_thunk_type_set(ITs, TTs) ==
    TypeSetOuter([j |-> 0, i_types |-> <<>>, it_types |-> <<>>,
                  getter |-> <<>>], ITs, TTs, 1)

\* ------------------------------------------------------------------------
\* The generated get_thunk_case, executed

RECURSIVE FirstBranch(_, _, _)
\* the if / else if chain inside one index block
FirstBranch(branches, T_typenum, k) ==
    IF k > Len(branches) THEN -1
    ELSE IF branches[k].T_typenum = T_typenum THEN branches[k].ret
    ELSE FirstBranch(branches, T_typenum, k + 1)

RECURSIVE FirstBlock(_, _, _, _)
\* the outer else if chain; falling out of it reaches "return -1"
FirstBlock(getter, I_typenum, T_typenum, k) ==
    IF k > Len(getter) THEN -1
    ELSE IF getter[k].I_typenum = I_typenum
         THEN FirstBranch(getter[k].branches, T_typenum, 1)
    ELSE FirstBlock(getter, I_typenum, T_typenum, k + 1)

get_thunk_case(getter, I_typenum, T_typenum) ==
    FirstBlock(getter, I_typenum, T_typenum, 1)

\* ------------------------------------------------------------------------
\* parse_routine

\* a cast expression "[*](<const ><ctype>*)a[<slot>]", or with vector
\* "(std::vector<<ctype>>*)a[<slot>]"
Expr(deref, const, vector, ctype, slot) ==
    [deref |-> deref, const |-> const, vector |-> vector, ctype |-> ctype,
     slot |-> slot]

\* const = '' if next_is_writeable else 'const '
ConstOf(next_is_writeable) == ~next_is_writeable

\* the state of the loop of get_arglist before its first iteration
ArgInit == [args |-> <<>>, next_is_writeable |-> FALSE, j |-> 0, err |-> ""]

\* an append that forgets j += 1
Emit_noslot(st, e) ==
    [args |-> Append(st.args, e), next_is_writeable |-> FALSE,
     j |-> st.j, err |-> ""]

\* args.append(...); j += 1
Emit(st, e) ==
    [args |-> Append(st.args, e), next_is_writeable |-> FALSE,
     j |-> st.j + 1, err |-> ""]

Raise(st, msg) == [st EXCEPT !.next_is_writeable = FALSE, !.err = msg]

\* one iteration of the loop of get_arglist, for the code t
ArgStep(st, t, I_type, T_type) ==
    LET const == ConstOf(st.next_is_writeable) IN
    CASE t = "*" -> [st EXCEPT !.next_is_writeable = TRUE]
      [] t = "i" -> Emit(st, Expr(TRUE, const, FALSE, I_type, st.j))
      [] t = "I" -> Emit(st, Expr(FALSE, const, FALSE, I_type, st.j))
      [] t = "T" -> Emit(st, Expr(FALSE, const, FALSE, T_type, st.j))
      [] t = "B" -> Emit(st, Expr(FALSE, FALSE, FALSE, "npy_bool_wrapper", st.j))
      [] t = "V" -> IF const
                    THEN Raise(st, "'V' argument must be an output arg")
                    ELSE Emit(st, Expr(FALSE, FALSE, TRUE, I_type, st.j))
      [] t = "W" -> IF const
                    THEN Raise(st, "'W' argument must be an output arg")
                    ELSE Emit(st, Expr(FALSE, FALSE, TRUE, T_type, st.j))
      [] t = "l" -> Emit(st, Expr(TRUE, const, FALSE, "npy_int64", st.j))
      [] OTHER   -> Raise(st, "Invalid spec character")

RECURSIVE ArgLoop(_, _, _, _, _)
\* the loop of get_arglist from the k-th code of arg_spec on
ArgLoop(st, arg_spec, k, I_type, T_type) ==
    IF k > Len(arg_spec) \/ st.err # "" THEN st
    ELSE ArgLoop(ArgStep(st, arg_spec[k], I_type, T_type),
                 arg_spec, k + 1, I_type, T_type)

\* the argument list, or the ValueError raised
get_arglist(arg_spec, I_type, T_type) ==
    LET st == ArgLoop(ArgInit, arg_spec, 1, I_type, T_type)
    IN  [err |-> st.err, args |-> IF st.err = "" THEN st.args ELSE <<>>]

\* a case that ignores ret_spec and always returns the call's result
Case_nonvoid(j, ret_spec, routine, arglist) ==
    [j |-> j, void |-> FALSE, name |-> routine, arglist |-> arglist]

\* "case j: (void)name(arglist); return 0;" or "case j: return name(arglist);"
Case(j, ret_spec, routine, arglist) ==
    [j |-> j, void |-> (ret_spec = "v"), name |-> routine, arglist |-> arglist]

RECURSIVE ThunkLoop(_, _, _, _, _, _)
\* the loop over types, from its k-th variant on; cases are those emitted
ThunkLoop(cases, routine, ret_spec, arg_spec, types, k) ==
    IF k > Len(types) THEN [err |-> "", cases |-> cases]
    ELSE LET al == get_arglist(arg_spec, types[k].I_type, types[k].T_type)
         IN  IF al.err # "" THEN [err |-> al.err, cases |-> <<>>]
             ELSE ThunkLoop(Append(cases,
                               Case(types[k].j, ret_spec, routine, al.args)),
                            routine, ret_spec, arg_spec, types, k + 1)

\* thunk and method code of a routine, or the ValueError raised
parse_routine(routine, sig, types) ==
    LET ret_spec == Head(sig)
        arg_spec == Tail(sig)
        th == ThunkLoop(<<>>, routine, ret_spec, arg_spec, types, 1)
    IN  IF th.err # ""
        THEN [err |-> th.err, thunk |-> <<>>, method |-> <<>>]
        ELSE [err |-> "",
              thunk |-> <<[name |-> routine, cases |-> th.cases]>>,
              method |-> <<[name |-> routine, ret_spec |-> ret_spec,
                            arg_spec |-> arg_spec]>>]

\* if 't' in args or 'T' in args
HasDataType(sig) == "t" \in Range(sig) \/ "T" \in Range(sig)

\* the choice of the variant list in main, and the call of parse_routine
Generate(routine, sig, its, itts) ==
    IF HasDataType(sig) THEN parse_routine(routine, sig, itts)
    ELSE parse_routine(routine, sig, its)

\* ------------------------------------------------------------------------
\* The generated thunk, executed: switch (get_thunk_case(I, T))

RECURSIVE Switch(_, _, _)
Switch(cases, j, k) ==
    IF k > Len(cases) THEN [outcome |-> "throw", j |-> j]
    ELSE IF cases[k].j = j
         THEN [outcome |-> IF cases[k].void THEN "zero" ELSE "result", j |-> j]
    ELSE Switch(cases, j, k + 1)

run_thunk(thunk, getter, I_typenum, T_typenum) ==
    Switch(thunk.cases, get_thunk_case(getter, I_typenum, T_typenum), 1)

\* ------------------------------------------------------------------------
\* Values shared by the specifications

\* the type lists of the runs that do not draw them
I_TYPES_REF == <<<<"NPY_INT32", "npy_int32">>, <<"NPY_INT64", "npy_int64">>>>
T_TYPES_REF == <<<<"NPY_BOOL", "npy_bool_wrapper">>, <<"NPY_DOUBLE", "npy_double">>>>

\* runtime type identifiers handed to the generated code
RuntimeI == {"NPY_INT32", "NPY_INT64", "NPY_OTHER"}
RuntimeT == {"NPY_BOOL", "NPY_BYTE", "NPY_DOUBLE", "NPY_OTHER", NoT}

NoCall == [I |-> "", T |-> "", ret |-> -1, outcome |-> ""]
NoGen == [err |-> "", thunk |-> <<>>, method |-> <<>>]
NoFiles == [d \in {} |-> <<>>]

\* ------------------------------------------------------------------------
\* SpecTypes: get_thunk_type_set over drawn type lists, and the generated
\* get_thunk_case called with drawn runtime identifiers

InitTypes ==
    /\ pc = "types"
    /\ I_TYPES \in SeqsUpTo(ITypePool, MaxI)
    /\ T_TYPES \in SeqsUpTo(TTypePool, MaxT)
    /\ i_types = <<>> /\ it_types = <<>> /\ getter_code = <<>>
    /\ name = "" /\ args = <<>> /\ gen = NoGen
    /\ names = <<>> /\ thunks = <<>> /\ methods = <<>>
    /\ unit = 0 /\ nlines = 0
    /\ force = TRUE /\ outdir = TRUE
    /\ files = NoFiles
    /\ err = ""
    /\ call = NoCall

BuildTypeSet ==
    /\ pc = "types"
    /\ LET r == get_thunk_type_set(I_TYPES, T_TYPES)
       IN  /\ i_types' = r.i_types
           /\ it_types' = r.it_types
           /\ getter_code' = r.getter
    /\ pc' = "built"
    /\ UNCHANGED <<I_TYPES, T_TYPES, name, args, gen, names, thunks, methods,
                   unit, nlines, force, outdir, files, err, call>>

CallGetThunkCase ==
    /\ pc \in {"built", "called"}
    /\ \E I \in RuntimeI, T \in RuntimeT :
         call' = [I |-> I, T |-> T, ret |-> get_thunk_case(getter_code, I, T),
                  outcome |-> "return"]
    /\ pc' = "called"
    /\ UNCHANGED <<I_TYPES, T_TYPES, i_types, it_types, getter_code, name,
                   args, gen, names, thunks, methods, unit, nlines, force,
                   outdir, files, err>>

NextTypes == BuildTypeSet \/ CallGetThunkCase

SpecTypes == InitTypes /\ [][NextTypes]_vars

\* ------------------------------------------------------------------------
\* SpecRoutine: one routine line of main with a drawn signature, and the
\* generated thunk called with drawn runtime identifiers

Alphabet == {"i", "I", "T", "B", "V", "W", "*", "v", "l"}
CodePool == Alphabet \cup {"t", "x"}

bsr_diagonal == <<"v", "i", "i", "i", "i", "i", "I", "I", "T", "*", "T">>
get_csr_submatrix == <<"v", "i", "i", "I", "I", "T", "i", "i", "i", "i",
                       "*", "V", "*", "V", "*", "W">>

Sigs == (SeqsUpTo(CodePool, MaxLen) \ {<<>>})
            \cup {bsr_diagonal, get_csr_submatrix}

InitRoutine ==
    /\ pc = "line"
    /\ I_TYPES = I_TYPES_REF
    /\ T_TYPES = T_TYPES_REF
    /\ LET r == get_thunk_type_set(I_TYPES_REF, T_TYPES_REF)
       IN  /\ i_types = r.i_types
           /\ it_types = r.it_types
           /\ getter_code = r.getter
    /\ name = "foo" /\ args \in Sigs /\ gen = NoGen
    /\ names = <<>> /\ thunks = <<>> /\ methods = <<>>
    /\ unit = 1 /\ nlines = 0
    /\ force = TRUE /\ outdir = TRUE
    /\ files = NoFiles
    /\ err = ""
    /\ call = NoCall

GenerateRoutine ==
    /\ pc = "line"
    /\ gen' = Generate(name, args, i_types, it_types)
    /\ err' = gen'.err
    /\ pc' = IF gen'.err # "" THEN "error" ELSE "generated"
    /\ UNCHANGED <<I_TYPES, T_TYPES, i_types, it_types, getter_code, name,
                   args, names, thunks, methods, unit, nlines, force, outdir,
                   files, call>>

CallThunk ==
    /\ pc \in {"generated", "called"}
    /\ \E I \in RuntimeI, T \in RuntimeT :
         LET r == run_thunk(gen.thunk[1], getter_code, I, T)
         IN  call' = [I |-> I, T |-> T, ret |-> r.j, outcome |-> r.outcome]
    /\ pc' = "called"
    /\ UNCHANGED <<I_TYPES, T_TYPES, i_types, it_types, getter_code, name,
                   args, gen, names, thunks, methods, unit, nlines, force,
                   outdir, files, err>>

NextRoutine == GenerateRoutine \/ CallThunk

SpecRoutine == InitRoutine /\ [][NextRoutine]_vars

\* ------------------------------------------------------------------------
\* Properties of the type matrix (SpecTypes)

CaseIds(types) == {types[k].j : k \in 1..Len(types)}
TypeNums(types) == {types[k][1] : k \in 1..Len(types)}
Distinct(types) == \A a, b \in 1..Len(types) : a # b => types[a][1] # types[b][1]

\* C1: for n index types and m data types the index-only list has n
\* variants, the index+data list n*m, and their case ids taken together are
\* exactly 0 .. n*m+n-1 with no id used by two variants.
C1_CaseIdsContiguous ==
    pc \in {"built", "called"} =>
        LET n == Len(I_TYPES)
            m == Len(T_TYPES)
            all == i_types \o it_types
        IN  /\ Len(i_types) = n
            /\ Len(it_types) = n * m
            /\ CaseIds(all) = 0..(n * m + n - 1)
            /\ \A a, b \in 1..Len(all) : a # b => all[a].j # all[b].j

C1_Witness ==
    /\ pc = "built"
    /\ Len(I_TYPES) = 2 /\ Len(T_TYPES) = 2
    /\ CaseIds(i_types) = {0, 3} /\ CaseIds(it_types) = {1, 2, 4, 5}

\* C5: with pairwise distinct type identifiers, get_thunk_case returns the
\* case id of the variant of (I, T), the id of the index-only variant of I
\* when T is -1, and -1 when I is unknown or I is known and T is unknown;
\* -1 is the case id of no variant.
C5_LookupMatchesVariants ==
    (pc = "called" /\ Distinct(I_TYPES) /\ Distinct(T_TYPES)) =>
        /\ \A k \in 1..Len(it_types) :
              (it_types[k].I_typenum = call.I /\ it_types[k].T_typenum = call.T)
                  => call.ret = it_types[k].j
        /\ \A k \in 1..Len(i_types) :
              (i_types[k].I_typenum = call.I /\ call.T = NoT)
                  => call.ret = i_types[k].j
        /\ call.I \notin TypeNums(I_TYPES) => call.ret = -1
        /\ (call.I \in TypeNums(I_TYPES) /\ call.T # NoT
              /\ call.T \notin TypeNums(T_TYPES)) => call.ret = -1
        /\ -1 \notin CaseIds(i_types \o it_types)

C5_Witness ==
    /\ pc = "called"
    /\ I_TYPES = I_TYPES_REF /\ T_TYPES = T_TYPES_REF
    /\ call.I = "NPY_INT64" /\ call.T = "NPY_DOUBLE" /\ call.ret = 5

\* ------------------------------------------------------------------------
\* Properties of one generated routine (SpecRoutine)

Generated == pc \in {"generated", "called"}
Cases == gen.thunk[1].cases
Labels == {Cases[k].j : k \in 1..Len(Cases)}
IsMarker(t) == t = "*"
NonMarker(arg_spec) == SelectSeq(arg_spec, LAMBDA t : ~IsMarker(t))
\* positions in arg_spec of the codes that are not the marker, in order
Positions(arg_spec) ==
    SelectSeq([k \in 1..Len(arg_spec) |-> k],
              LAMBDA k : ~IsMarker(arg_spec[k]))
Marked(arg_spec, k) == k > 1 /\ IsMarker(arg_spec[k - 1])
DanglingMarker(arg_spec) ==
    \E k \in 1..Len(arg_spec) :
        IsMarker(arg_spec[k]) /\ (k = Len(arg_spec) \/ IsMarker(arg_spec[k + 1]))
ExprOfCode(e, t) ==
    /\ e.deref = (t \in {"i", "l"})
    /\ e.vector = (t \in {"V", "W"})

\* C3: a type-code string (of a void routine) with a marker that is last, or
\* followed by another marker, is rejected with an error.
C3_DanglingMarkerRejected ==
    (pc # "line" /\ Head(args) = "v" /\ DanglingMarker(Tail(args)))
        => pc = "error"

\* C4: for a void signature within the alphabet, the thunk is generated over the index-only list exactly when the
\* signature has no 'T' and no 'W', and no expression is cast to an absent
\* data type.
C4_IndexOnlyIffNoData ==
    (Generated /\ Range(args) \subseteq Alphabet /\ Head(args) = "v") =>
        /\ (Labels = CaseIds(i_types))
              <=> ("T" \notin Range(args) /\ "W" \notin Range(args))
        /\ \A c \in Range(Cases) : \A e \in Range(c.arglist) : e.ctype # None

\* C6: a signature with a character outside the alphabet, in the return code
\* or in the argument codes, is rejected and no thunk or method is produced.
C6_UnknownCodeRejected ==
    (pc # "line" /\ ~(Range(args) \subseteq Alphabet)) =>
        (pc = "error" /\ gen.thunk = <<>> /\ gen.method = <<>>)

\* the general part of C7: one expression per non-marker code, in order,
\* the k-th (from 0) reading slot k
OneExprPerCode ==
    \A c \in Range(Cases) :
        LET codes == NonMarker(Tail(args))
        IN  /\ Len(c.arglist) = Len(codes)
            /\ \A k \in 1..Len(codes) :
                  /\ c.arglist[k].slot = k - 1
                  /\ ExprOfCode(c.arglist[k], codes[k])

\* C7 as amended: in every generated case the marshaller emits one
\* expression per non-marker code, in order, the k-th (from 0) reading slot
\* a[k]; "iiiiiIIT*T" yields 9 expressions reading slots 0..8 of which only
\* the 9th is mutable.
C7_OneExprPerCode ==
    Generated =>
        /\ OneExprPerCode
        /\ args = bsr_diagonal =>
              \A c \in Range(Cases) :
                  /\ Len(c.arglist) = 9
                  /\ \A k \in 1..9 : c.arglist[k].const <=> k # 9

\* C7 as stated: "iiiiiIIT*T" yields 8 expressions, only the 8th mutable.
C7_Original ==
    Generated =>
        /\ OneExprPerCode
        /\ args = bsr_diagonal =>
              \A c \in Range(Cases) :
                  /\ Len(c.arglist) = 8
                  /\ \A k \in 1..Len(c.arglist) : c.arglist[k].const <=> k # 8

C7_Witness ==
    /\ pc = "generated"
    /\ args = bsr_diagonal
    /\ Len(Cases) = 4

\* C8: in a void routine, the expression of every 'i', 'I', 'T' and 'B'
\* code is const exactly when the code is not immediately preceded by the
\* marker.
C8_ConstIffUnmarked ==
    (Generated /\ Head(args) = "v") =>
        \A c \in Range(Cases) :
            LET arg_spec == Tail(args)
                pos == Positions(arg_spec)
            IN  \A k \in 1..Len(pos) :
                    (k <= Len(c.arglist)
                        /\ arg_spec[pos[k]] \in {"i", "I", "T", "B"})
                      => (c.arglist[k].const <=> ~Marked(arg_spec, pos[k]))

\* C9: the thunk has exactly one case per case id of one of the two variant
\* lists and no other; a case returns 0 for a void routine and the call's
\* result otherwise; a lookup result that is no case label (-1, or an id of
\* the other list) throws.
C9_ThunkCases ==
    Generated =>
        /\ Labels = CaseIds(i_types) \/ Labels = CaseIds(it_types)
        /\ Len(Cases) = Cardinality(Labels)
        /\ \A c \in Range(Cases) : c.void <=> (Head(args) = "v")
        /\ pc = "called" =>
              /\ call.outcome =
                    IF call.ret \in Labels
                    THEN (IF Head(args) = "v" THEN "zero" ELSE "result")
                    ELSE "throw"
              /\ call.ret = -1 => call.outcome = "throw"
              /\ (Labels = CaseIds(i_types) /\ call.T # NoT)
                    => call.outcome = "throw"
              /\ (Labels = CaseIds(it_types) /\ call.T = NoT)
                    => call.outcome = "throw"

C9_Witness ==
    /\ pc = "called"
    /\ Labels = CaseIds(i_types)
    /\ call.I = "NPY_INT32" /\ call.T = "NPY_DOUBLE"
    /\ call.ret = 2 /\ call.outcome = "throw"

\* ------------------------------------------------------------------------
\* Spec: a run of main.  The routine tables are input: each line is drawn
\* when the loop reaches it, and a table ends after at most MaxLines lines.

UNIT_NAMES == <<"bsr", "csr", "csc", "other">>

\* unit_name + '_impl.h'
UnitDst(u) == <<UNIT_NAMES[u], "_impl.h">>
GlobalDst == <<"sparsetools", "_impl.h">>

\* A stripped line: comment is line.startswith('#'), name is the first
\* whitespace-separated field (none in a blank line), rest are the fields
\* after it.
Line(comment, first, rest) == [comment |-> comment, name |-> first, rest |-> rest]

NamePool == {"csr_matvec", "foo"}
RestPool == {<<<<"v">>, <<"i", "T", "*", "T">>>>,
             <<<<"i">>, <<"i", "I">>>>,
             <<<<"v">>, <<"i", "x">>>>,
             <<<<"v", "i", "V">>>>}
LinePool ==
    {Line(FALSE, <<>>, <<>>), Line(TRUE, <<"#">>, <<>>)}
        \cup {Line(FALSE, <<n>>, <<>>) : n \in {"foo"}}
        \cup {Line(FALSE, <<n>>, r) : n \in NamePool, r \in RestPool}

RECURSIVE Join(_)
\* "".join(args.split())
Join(fields) == IF fields = <<>> THEN <<>> ELSE Head(fields) \o Join(Tail(fields))

\* if not line or line.startswith('#'): continue
Skipped(line) == line.name = <<>> \/ line.comment

\* the run continues with the next line unless an exception was raised
AfterLine_continue(e) == "lines"

AfterLine(e) == IF e # "" THEN "error" ELSE "lines"

ShouldWrite_and(isNewer, f) == isNewer /\ f

\* if newer(__file__, dst) or options.force
ShouldWrite(isNewer, f) == isNewer \/ f

Init ==
    /\ pc = "start"
    /\ I_TYPES = I_TYPES_REF
    /\ T_TYPES = T_TYPES_REF
    /\ i_types = <<>> /\ it_types = <<>> /\ getter_code = <<>>
    /\ name = "" /\ args = <<>> /\ gen = NoGen
    /\ names = <<>> /\ thunks = <<>> /\ methods = <<>>
    /\ unit = 0 /\ nlines = 0
    /\ force \in BOOLEAN /\ outdir \in BOOLEAN
    /\ files = NoFiles
    /\ err = ""
    /\ call = NoCall

\* names = []; i_types, it_types, getter_code = get_thunk_type_set()
Start ==
    /\ pc = "start"
    /\ names' = <<>>
    /\ LET r == get_thunk_type_set(I_TYPES, T_TYPES)
       IN  /\ i_types' = r.i_types
           /\ it_types' = r.it_types
           /\ getter_code' = r.getter
    /\ pc' = "unit"
    /\ UNCHANGED <<I_TYPES, T_TYPES, name, args, gen, thunks, methods, unit,
                   nlines, force, outdir, files, err, call>>

\* the loop over COMPILATION_UNITS enters its next unit
BeginUnit ==
    /\ pc = "unit"
    /\ unit < MaxUnits
    /\ unit' = unit + 1
    /\ thunks' = <<>>
    /\ methods' = <<>>
    /\ nlines' = 0
    /\ pc' = "lines"
    /\ UNCHANGED <<I_TYPES, T_TYPES, i_types, it_types, getter_code, name,
                   args, gen, names, force, outdir, files, err, call>>

\* a blank line or a comment
SkipLine ==
    /\ pc = "lines"
    /\ nlines < MaxLines
    /\ \E line \in LinePool : Skipped(line)
    /\ nlines' = nlines + 1
    /\ UNCHANGED <<pc, I_TYPES, T_TYPES, i_types, it_types, getter_code, name,
                   args, gen, names, thunks, methods, unit, force, outdir,
                   files, err, call>>

\* a line without a second field: line.split(None, 1) does not unpack
MalformedLine ==
    /\ pc = "lines"
    /\ nlines < MaxLines
    /\ \E line \in LinePool : ~Skipped(line) /\ line.rest = <<>>
    /\ nlines' = nlines + 1
    /\ err' = "Malformed line"
    /\ pc' = AfterLine(err')
    /\ UNCHANGED <<I_TYPES, T_TYPES, i_types, it_types, getter_code, name,
                   args, gen, names, thunks, methods, unit, force, outdir,
                   files, call>>

\* a routine line: generation, then the duplicate check, then the appends
RoutineLine ==
    /\ pc = "lines"
    /\ nlines < MaxLines
    /\ \E line \in LinePool :
         /\ ~Skipped(line)
         /\ line.rest # <<>>
         /\ name' = line.name[1]
         /\ args' = Join(line.rest)
    /\ nlines' = nlines + 1
    /\ gen' = Generate(name', args', i_types, it_types)
    /\ err' = IF gen'.err # "" THEN gen'.err
              ELSE IF name' \in Range(names) THEN "Duplicate routine"
              ELSE ""
    /\ IF err' = ""
       THEN /\ names' = Append(names, name')
            /\ thunks' = thunks \o gen'.thunk
            /\ methods' = methods \o gen'.method
       ELSE UNCHANGED <<names, thunks, methods>>
    /\ pc' = AfterLine(err')
    /\ UNCHANGED <<I_TYPES, T_TYPES, i_types, it_types, getter_code, unit,
                   force, outdir, files, call>>

\* the table is exhausted: the unit's file is produced.  outdir is bound
\* only when options.outdir is given.
WriteUnit ==
    /\ pc = "lines"
    /\ IF ~outdir
       THEN /\ err' = "UnboundLocalError"
            /\ pc' = "error"
            /\ UNCHANGED files
       ELSE /\ \E isNewer \in BOOLEAN :
                 files' = IF ShouldWrite(isNewer, force)
                          THEN (UnitDst(unit) :>
                                   [getter_code |-> getter_code,
                                    thunks |-> thunks,
                                    methods |-> methods]) @@ files
                          ELSE files
            /\ pc' = "unit"
            /\ UNCHANGED err
    /\ UNCHANGED <<I_TYPES, T_TYPES, i_types, it_types, getter_code, name,
                   args, gen, names, thunks, methods, unit, nlines, force,
                   outdir, call>>

\* the loop over COMPILATION_UNITS is over: sparsetools_impl.h is produced.
\* outdir was bound by the body of the loop.
WriteGlobal ==
    /\ pc = "unit"
    /\ IF ~(outdir /\ unit >= 1)
       THEN /\ err' = "UnboundLocalError"
            /\ pc' = "error"
            /\ UNCHANGED files
       ELSE /\ \E isNewer \in BOOLEAN :
                 files' = IF ShouldWrite(isNewer, force)
                          THEN (GlobalDst :>
                                   [getter_code |-> <<>>,
                                    thunks |-> <<>>,
                                    methods |-> names]) @@ files
                          ELSE files
            /\ pc' = "done"
            /\ UNCHANGED err
    /\ UNCHANGED <<I_TYPES, T_TYPES, i_types, it_types, getter_code, name,
                   args, gen, names, thunks, methods, unit, nlines, force,
                   outdir, call>>

Next ==
    \/ Start
    \/ BeginUnit
    \/ SkipLine
    \/ MalformedLine
    \/ RoutineLine
    \/ WriteUnit
    \/ WriteGlobal

Spec == Init /\ [][Next]_vars

\* ------------------------------------------------------------------------
\* Properties of a run (Spec)

GenErrors == {"Malformed line", "Invalid spec character",
              "'V' argument must be an output arg",
              "'W' argument must be an output arg", "Duplicate routine"}

\* the names appended while earlier units were processed
EarlierNames == SubSeq(names, 1, Len(names) - Len(thunks))

\* the run ended on a routine name that an earlier unit has used
CrossUnitDuplicate ==
    /\ pc = "error"
    /\ err = "Duplicate routine"
    /\ name \in Range(EarlierNames)

\* C2 as stated: a run that ends in the duplicate error for a name used in
\* an earlier unit has written no file.
C2_Original == CrossUnitDuplicate => DOMAIN files = {}

\* C2 as amended: such a run has written neither the file of the unit with
\* the second occurrence, nor that of a later unit, nor the global file; the
\* files it has written are those of earlier units, all of them under force.
C2_DuplicateAbort ==
    CrossUnitDuplicate =>
        /\ DOMAIN files \subseteq {UnitDst(u) : u \in 1..(unit - 1)}
        /\ force => DOMAIN files = {UnitDst(u) : u \in 1..(unit - 1)}

C2_Witness ==
    /\ CrossUnitDuplicate
    /\ name = "csr_matvec"
    /\ unit = 2
    /\ DOMAIN files = {UnitDst(1)}

\* C10: once a generation-time error is raised in a unit, neither that
\* unit's file nor a later unit's nor the global file is written; the file
\* of the current unit exists only after all its lines were processed, and
\* the global file only at the end of a run without error.
C10_NoPartialOutput ==
    /\ err \in GenErrors =>
          /\ DOMAIN files \subseteq {UnitDst(u) : u \in 1..(unit - 1)}
    /\ (unit >= 1 /\ UnitDst(unit) \in DOMAIN files) =>
          /\ pc \in {"unit", "done"}
          /\ err = ""
          /\ files[UnitDst(unit)].thunks = thunks
    /\ GlobalDst \in DOMAIN files => (pc = "done" /\ err = "")

C10_Witness ==
    /\ pc = "error"
    /\ err = "Invalid spec character"
    /\ unit = 2
    /\ Len(thunks) = 1
    /\ DOMAIN files = {UnitDst(1)}

====
